---- MODULE Spec2Model ----
(***************************************************************************)
(* Verification model of the OPC UA wrapper module of rmvl.                *)
(*                                                                         *)
(*   - rm::VariableType / rm::Variable   (rmvl/opcua/variable.hpp)         *)
(*   - rm::Publisher<UDP_UADP>           (opcua/src/publisher.cpp)         *)
(*   - rm::Server node addition, path search and life cycle, as exercised  *)
(*     by test_opcua_server.cpp                                            *)
(*                                                                         *)
(* Three independent state machines share the module.  Each has its own    *)
(* specification (Spec, SpecPub, SpecSrv / SpecSrvFair) and leaves the     *)
(* variables of the others untouched.                                      *)
(***************************************************************************)
EXTENDS Integers, Sequences, FiniteSets, TLC

VARIABLES vt, var, pub, lib, call, srv, thr

vars == <<vt, var, pub, lib, call, srv, thr>>

(***************************************************************************)
(* Bounds of the model.                                                    *)
(***************************************************************************)
\* largest number of runs of a run-length encoded std::vector
MaxRuns == 1

(***************************************************************************)
(* Static types, values and std::vector.                                   *)
(*                                                                         *)
(* A C++ type is a base type with an optional cv qualifier and reference.   *)
(* "const char *" is a base type of its own (the const belongs to the      *)
(* pointee).  A std::vector<Tp> is kept run-length encoded, as a sequence  *)
(* of runs <<element, count>> with neighbouring runs holding different     *)
(* elements, so that vectors longer than 2^32 elements stay representable. *)
(***************************************************************************)
FundamentalTypes == {"bool", "int", "double"}

BaseTypes == FundamentalTypes \cup {"const char *", "char *"}

CType == [base : BaseTypes, cvref : {"", "const", "const &"}]

ScalarVals == {0, 1}

\* Sizes (std::size_t, UA_UInt32) exceed the integers of the model checker,
\* so a size is kept as two limbs <<hi, lo>> of 16 bits each and stands for
\* hi * 2^16 + lo.  A UA_UInt32 has hi < 2^16.
Limb == 2 ^ 16

\* the size n, for an n that fits one limb pair of the model checker
SizeOf(n) == <<n \div Limb, n % Limb>>

\* a + b on std::size_t
SizeAdd(a, b) ==
    <<a[1] + b[1] + ((a[2] + b[2]) \div Limb), (a[2] + b[2]) % Limb>>

\* UINT32_MAX + 1, the number of values of a UA_UInt32
UInt32Count == <<Limb, 0>>

RunCounts == {SizeOf(1), UInt32Count}

Run == ScalarVals \X RunCounts

IsVector(runs) ==
    \A i \in 1..(Len(runs) - 1) : runs[i][1] # runs[i + 1][1]

Vectors == {runs \in UNION {[1..n -> Run] : n \in 0..MaxRuns} : IsVector(runs)}

\* std::decay_t<Tp>
decay_t(Tp) == Tp.base

\* std::is_fundamental_v<Tp>
is_fundamental_v(base) == base \in FundamentalTypes

\* rm::DataType(typeid(Tp)): the UA_TYPES_<xxx> tag of a C++ type
DataType(base) ==
    CASE base = "bool" -> "UA_TYPES_BOOLEAN"
      [] base = "int" -> "UA_TYPES_INT32"
      [] base = "double" -> "UA_TYPES_DOUBLE"
      [] base = "const char *" -> "UA_TYPES_STRING"
      [] OTHER -> "UA_TYPES_COUNT"

\* rm::DataType{}
NoDataType == "DataType{}"

\* std::vector<Tp>::size()
RECURSIVE VectorSize(_)
VectorSize(runs) ==
    IF runs = <<>> THEN SizeOf(0)
    ELSE SizeAdd(Head(runs)[2], VectorSize(Tail(runs)))

\* conversion of a std::size_t to UA_UInt32
ToUInt32(n) == <<n[1] % Limb, n[2]>>

\* an empty std::any
NoValue == [kind |-> "none", tp |-> "void", v |-> 0, runs |-> <<>>]

\* std::any holding a scalar of (decayed) type base
ScalarValue(base, v) == [kind |-> "scalar", tp |-> base, v |-> v, runs |-> <<>>]

\* std::any holding a std::vector<base>
VectorValue(base, runs) == [kind |-> "vector", tp |-> base, v |-> 0, runs |-> runs]

(***************************************************************************)
(* rm::VariableType                                                        *)
(***************************************************************************)
\* VariableType() = default
VariableTypeDefault ==
    [ns |-> 1, browse_name |-> "", display_name |-> "", description |-> "",
     _value |-> NoValue, _data_type |-> NoDataType, _size |-> SizeOf(0),
     ctor |-> "default"]

\* the enable_if constraint of the scalar constructors
ScalarEnabled(Tp) ==
    is_fundamental_v(decay_t(Tp)) \/ decay_t(Tp) = "const char *"

\* the enable_if constraint of the std::vector constructors
VectorEnabled(base) == is_fundamental_v(base) /\ base # "bool"

\* VariableType(Tp val)
VariableTypeScalar(Tp, val) ==
    [VariableTypeDefault EXCEPT
        !._value = ScalarValue(decay_t(Tp), val),
        !._data_type = DataType(decay_t(Tp)),
        !._size = SizeOf(1),
        !.ctor = "scalar"]

\* VariableType(const std::vector<Tp> &arr)
VariableTypeVector(base, arr) ==
    [VariableTypeDefault EXCEPT
        !._value = VectorValue(base, arr),
        !._data_type = DataType(base),
        !._size = ToUInt32(VectorSize(arr)),
        !.ctor = "vector"]

\* VariableType::data
VariableTypeData(t) == t._value

\* VariableType::getDataType
VariableTypeDataType(t) == t._data_type

\* VariableType::empty
VariableTypeEmpty(t) == t._size = SizeOf(0)

\* VariableType::size
VariableTypeSize(t) == t._size

(***************************************************************************)
(* rm::Variable                                                            *)
(***************************************************************************)
VARIABLE_READ == 1

VARIABLE_WRITE == 2

\* Variable() = default
VariableDefault ==
    [ns |-> 1, browse_name |-> "", display_name |-> "", description |-> "",
     access_level |-> 0, _type |-> VariableTypeDefault,
     _value |-> NoValue, _data_type |-> NoDataType, _size |-> SizeOf(0),
     ctor |-> "default"]

\* Variable(Tp val) without the initialiser _size(1)
VariableScalarNoSize(Tp, val) ==
    [VariableDefault EXCEPT
        !.access_level = 3,
        !._value = ScalarValue(decay_t(Tp), val),
        !._data_type = DataType(decay_t(Tp)),
        !.ctor = "scalar"]

\* Variable(Tp val)
VariableScalar(Tp, val) ==
    [VariableDefault EXCEPT
        !.access_level = 3,
        !._value = ScalarValue(decay_t(Tp), val),
        !._data_type = DataType(decay_t(Tp)),
        !._size = SizeOf(1),
        !.ctor = "scalar"]

\* Variable(const std::vector<Tp> &arr)
VariableVector(base, arr) ==
    [VariableDefault EXCEPT
        !.access_level = 3,
        !._value = VectorValue(base, arr),
        !._data_type = DataType(base),
        !._size = ToUInt32(VectorSize(arr)),
        !.ctor = "vector"]

\* explicit Variable(const VariableType &vtype) without the initialiser
\* _type(vtype)
VariableOfTypeNoType(vtype) ==
    [VariableDefault EXCEPT
        !.access_level = 3,
        !._value = VariableTypeData(vtype),
        !._data_type = VariableTypeDataType(vtype),
        !._size = VariableTypeSize(vtype),
        !.ctor = "from"]

\* explicit Variable(const VariableType &vtype)
VariableOfType(vtype) ==
    [VariableDefault EXCEPT
        !.access_level = 3,
        !._type = vtype,
        !._value = VariableTypeData(vtype),
        !._data_type = VariableTypeDataType(vtype),
        !._size = VariableTypeSize(vtype),
        !.ctor = "from"]

\* Variable::from
VariableFrom(vtype) == VariableOfType(vtype)

\* Variable::empty testing the stored value instead of the size
VariableEmptyByValue(v) == v._value.kind = "none"

\* Variable::empty
VariableEmpty(v) == v._size = SizeOf(0)

\* Variable::size
VariableSize(v) == v._size

\* Variable::type
VariableTypeOf(v) == v._type

\* Variable::data
VariableData(v) == v._value

\* Variable::getDataType
VariableDataType(v) == v._data_type

(***************************************************************************)
(* Operations on the variable type `vt' and the variable `var' in scope.   *)
(***************************************************************************)
Names == {"val"}

Namespaces == {1, 2}

\* rm::VariableType vt;
NewVariableType ==
    /\ vt' = VariableTypeDefault
    /\ UNCHANGED <<var, pub, lib, call, srv, thr>>

\* rm::VariableType vt = val;
NewVariableTypeScalar ==
    \E Tp \in CType, val \in ScalarVals :
        /\ ScalarEnabled(Tp)
        /\ vt' = VariableTypeScalar(Tp, val)
        /\ UNCHANGED <<var, pub, lib, call, srv, thr>>

\* rm::VariableType vt = arr;
NewVariableTypeVector ==
    \E base \in BaseTypes, arr \in Vectors :
        /\ VectorEnabled(base)
        /\ vt' = VariableTypeVector(base, arr)
        /\ UNCHANGED <<var, pub, lib, call, srv, thr>>

\* the assignments of uaCreateVariableType(val, ...)
NameVariableType ==
    \E n \in Names :
        /\ vt' = [vt EXCEPT !.browse_name = n, !.display_name = n,
                            !.description = n]
        /\ UNCHANGED <<var, pub, lib, call, srv, thr>>

\* vt.ns = ns;
SetVariableTypeNs ==
    \E ns \in Namespaces :
        /\ vt' = [vt EXCEPT !.ns = ns]
        /\ UNCHANGED <<var, pub, lib, call, srv, thr>>

\* rm::Variable var;
NewVariable ==
    /\ var' = VariableDefault
    /\ UNCHANGED <<vt, pub, lib, call, srv, thr>>

\* rm::Variable var = val;
NewVariableScalar ==
    \E Tp \in CType, val \in ScalarVals :
        /\ ScalarEnabled(Tp)
        /\ var' = VariableScalar(Tp, val)
        /\ UNCHANGED <<vt, pub, lib, call, srv, thr>>

\* rm::Variable var = arr;
NewVariableVector ==
    \E base \in BaseTypes, arr \in Vectors :
        /\ VectorEnabled(base)
        /\ var' = VariableVector(base, arr)
        /\ UNCHANGED <<vt, pub, lib, call, srv, thr>>

\* auto var = rm::Variable::from(vt);
NewVariableFrom ==
    /\ var' = VariableFrom(vt)
    /\ UNCHANGED <<vt, pub, lib, call, srv, thr>>

\* the assignments of uaCreateVariable(val, ...)
NameVariable ==
    \E n \in Names :
        /\ var' = [var EXCEPT !.browse_name = n, !.display_name = n,
                              !.description = n]
        /\ UNCHANGED <<vt, pub, lib, call, srv, thr>>

(***************************************************************************)
(* The state before any publisher, library configuration or server exists. *)
(***************************************************************************)
NoCall == [name |-> "none", ret |-> "none", log |-> <<>>, datas |-> <<>>, n |-> 0]

NoPublisher ==
    [_server |-> "nullptr", _name |-> "", _connection_id |-> 0, _pds_id |-> 0,
     _wg_id |-> 0, _dsw_id |-> 0]

NoLibrary ==
    [conns |-> {}, pds |-> {}, fields |-> <<>>, wgs |-> {}, oper |-> {},
     dsws |-> {}, next |-> 1]

NoServer == [nodes |-> {}, next |-> 1, pc |-> "config", _running |-> FALSE,
             events |-> 0, ret |-> <<0, 0>>, last |-> "none", arg |-> ""]

(***************************************************************************)
(* rm::Publisher<TransportID::UDP_UADP>                                    *)
(*                                                                         *)
(* A UA_NodeId is a natural number and UA_NODEID_NULL is 0.  `lib' is the  *)
(* pub/sub configuration held by the wrapped library: its connections,     *)
(* published data sets, data set fields, writer groups and data set        *)
(* writers.  Each library call takes a flag `ok' telling whether the       *)
(* library accepts the call; a call on an entity the library does not hold *)
(* fails whatever the flag.  A failed call leaves its out-parameter as it  *)
(* was.  `call' records the last invocation of a wrapper operation: its    *)
(* name, its outcome and the library calls it made with their status.      *)
(***************************************************************************)
\* total number of data set fields the library accepts
MaxFields == 2

\* number of publish invocations
MaxPublish == 2

UA_NODEID_NULL == 0

\* UA_NodeId_isNull
UA_NodeId_isNull(id) == id = UA_NODEID_NULL

PublisherNames == {"pub"}

\* rm::PublishedDataSet: a field name and the node id of the published variable
PublishedDataSet == [name : {"x", "y"}, node_id : {7}]

Durations == {100}

\* UA_Server_addPubSubConnection
UA_Server_addPubSubConnection(l, server, config, ok) ==
    IF server # "nullptr" /\ ok
    THEN [lib |-> [l EXCEPT !.conns = @ \cup {[id |-> l.next, name |-> config]},
                            !.next = @ + 1],
          status |-> "GOOD", id |-> l.next]
    ELSE [lib |-> l, status |-> "BAD", id |-> UA_NODEID_NULL]

\* UA_Server_addPublishedDataSet
UA_Server_addPublishedDataSet(l, server, config, ok) ==
    IF server # "nullptr" /\ ok
    THEN [lib |-> [l EXCEPT !.pds = @ \cup {[id |-> l.next, name |-> config]},
                            !.next = @ + 1],
          status |-> "GOOD", id |-> l.next]
    ELSE [lib |-> l, status |-> "BAD", id |-> UA_NODEID_NULL]

\* UA_Server_addDataSetField
UA_Server_addDataSetField(l, pds_id, config, ok) ==
    IF ok /\ (\E d \in l.pds : d.id = pds_id)
    THEN [lib |-> [l EXCEPT !.fields = Append(@, [pds |-> pds_id, cfg |-> config])],
          status |-> "GOOD"]
    ELSE [lib |-> l, status |-> "BAD"]

\* UA_Server_addWriterGroup
UA_Server_addWriterGroup(l, connection_id, config, ok) ==
    IF ok /\ (\E c \in l.conns : c.id = connection_id)
    THEN [lib |-> [l EXCEPT !.wgs = @ \cup {[id |-> l.next, conn |-> connection_id,
                                             cfg |-> config]},
                            !.next = @ + 1],
          status |-> "GOOD", id |-> l.next]
    ELSE [lib |-> l, status |-> "BAD", id |-> UA_NODEID_NULL]

\* UA_Server_setWriterGroupOperational
UA_Server_setWriterGroupOperational(l, wg_id, ok) ==
    IF ok /\ (\E w \in l.wgs : w.id = wg_id)
    THEN [lib |-> [l EXCEPT !.oper = @ \cup {wg_id}], status |-> "GOOD"]
    ELSE [lib |-> l, status |-> "BAD"]

\* UA_Server_addDataSetWriter
UA_Server_addDataSetWriter(l, wg_id, pds_id, config, ok) ==
    IF ok /\ (\E w \in l.wgs : w.id = wg_id) /\ (\E d \in l.pds : d.id = pds_id)
    THEN [lib |-> [l EXCEPT !.dsws = @ \cup {[id |-> l.next, wg |-> wg_id,
                                              pds |-> pds_id, name |-> config]},
                            !.next = @ + 1],
          status |-> "GOOD", id |-> l.next]
    ELSE [lib |-> l, status |-> "BAD", id |-> UA_NODEID_NULL]

\* Publisher(pub_name, address, port, users): the publisher and the library
\* after construction.  server is the UA_Server the base class created.
PublisherCtor(pub_name, server, connOk, pdsOk) ==
    LET p0 == [NoPublisher EXCEPT !._server = server, !._name = pub_name]
        c == UA_Server_addPubSubConnection(NoLibrary, server, pub_name, connOk)
    IN  IF c.status # "GOOD"
        THEN [pub |-> p0, lib |-> c.lib]
        ELSE LET p1 == [p0 EXCEPT !._connection_id = c.id]
                 d == UA_Server_addPublishedDataSet(c.lib, server, pub_name, pdsOk)
             IN  IF d.status # "GOOD"
                 THEN [pub |-> p1, lib |-> d.lib]
                 ELSE [pub |-> [p1 EXCEPT !._pds_id = d.id], lib |-> d.lib]

\* getPDS
getPDS(pd) ==
    [fieldNameAlias |-> pd.name, promotedField |-> FALSE,
     publishedVariable |-> pd.node_id]

\* the preconditions of publish without the test of the connection id
PublishPreconditionNoConnection(p) ==
    IF p._server = "nullptr" THEN "RMVL_StsNullPtr" ELSE "ok"

\* the preconditions of publish: "RMVL_StsNullPtr" is the error raised,
\* "false" the value returned, "ok" lets publish go on
PublishPrecondition(p) ==
    IF p._server = "nullptr" THEN "RMVL_StsNullPtr"
    ELSE IF UA_NodeId_isNull(p._connection_id) THEN "false"
    ELSE "ok"

\* the loop of publish over datas that goes on after a failed field
RECURSIVE PublishFieldsAll(_, _, _, _, _)
PublishFieldsAll(p, l, datas, oks, log) ==
    IF datas = <<>> THEN [lib |-> l, log |-> log, ok |-> TRUE]
    ELSE LET r == UA_Server_addDataSetField(l, p._pds_id, getPDS(Head(datas)),
                                            Head(oks))
         IN  PublishFieldsAll(p, r.lib, Tail(datas), Tail(oks),
                              Append(log, <<"UA_Server_addDataSetField", r.status>>))

\* the loop of publish over datas: one data set field per element, up to
\* the first one the library refuses
RECURSIVE PublishFields(_, _, _, _, _)
PublishFields(p, l, datas, oks, log) ==
    IF datas = <<>> THEN [lib |-> l, log |-> log, ok |-> TRUE]
    ELSE LET r == UA_Server_addDataSetField(l, p._pds_id, getPDS(Head(datas)),
                                            Head(oks))
             log1 == Append(log, <<"UA_Server_addDataSetField", r.status>>)
         IN  IF r.status # "GOOD"
             THEN [lib |-> r.lib, log |-> log1, ok |-> FALSE]
             ELSE PublishFields(p, r.lib, Tail(datas), Tail(oks), log1)

\* publish(datas, duration): the publisher and the library after the call,
\* the outcome and the library calls made.  st holds the library's answers.
Publish(p, l, datas, duration, st) ==
    LET pre == PublishPrecondition(p)
    IN  IF pre # "ok"
        THEN [pub |-> p, lib |-> l, ret |-> pre, log |-> <<>>]
        ELSE
        LET f == PublishFields(p, l, datas, st.dsf, <<>>)
        IN  IF ~f.ok
            THEN [pub |-> p, lib |-> f.lib, ret |-> "false", log |-> f.log]
            ELSE
        LET wg_config == [name |-> p._name, publishingInterval |-> duration,
                          enabled |-> FALSE]
            w == UA_Server_addWriterGroup(f.lib, p._connection_id, wg_config, st.wg)
            p1 == IF w.status = "GOOD" THEN [p EXCEPT !._wg_id = w.id] ELSE p
            log1 == Append(f.log, <<"UA_Server_addWriterGroup", w.status>>)
        IN  IF w.status # "GOOD"
            THEN [pub |-> p1, lib |-> w.lib, ret |-> "false", log |-> log1]
            ELSE
        LET o == UA_Server_setWriterGroupOperational(w.lib, p1._wg_id, st.oper)
            log2 == Append(log1, <<"UA_Server_setWriterGroupOperational", o.status>>)
        IN  IF o.status # "GOOD"
            THEN [pub |-> p1, lib |-> o.lib, ret |-> "false", log |-> log2]
            ELSE
        LET d == UA_Server_addDataSetWriter(o.lib, p1._wg_id, p1._pds_id, p1._name,
                                            st.dsw)
            p2 == IF d.status = "GOOD" THEN [p1 EXCEPT !._dsw_id = d.id] ELSE p1
            log3 == Append(log2, <<"UA_Server_addDataSetWriter", d.status>>)
        IN  IF d.status # "GOOD"
            THEN [pub |-> p2, lib |-> d.lib, ret |-> "false", log |-> log3]
            ELSE [pub |-> p2, lib |-> d.lib, ret |-> "true", log |-> log3]

DataSets == UNION {[1..n -> PublishedDataSet] : n \in 0..MaxFields}

\* the number of publish invocations so far
Published == call.n

\* pub.publish(datas, duration);
DoPublish ==
    \E datas \in DataSets, duration \in Durations :
      \E st \in [dsf : [1..Len(datas) -> BOOLEAN], wg : BOOLEAN, oper : BOOLEAN,
                 dsw : BOOLEAN] :
        /\ Published < MaxPublish
        /\ Len(lib.fields) + Len(datas) <= MaxFields
        /\ LET r == Publish(pub, lib, datas, duration, st)
           IN  /\ pub' = r.pub
               /\ lib' = r.lib
               /\ call' = [name |-> "publish", ret |-> r.ret, log |-> r.log,
                           datas |-> datas, n |-> call.n + 1]
        /\ UNCHANGED <<vt, var, srv, thr>>

InitPub ==
    /\ vt = VariableTypeDefault
    /\ var = VariableDefault
    /\ \E name \in PublisherNames, server \in {"nullptr", "server"},
          connOk \in BOOLEAN, pdsOk \in BOOLEAN :
          LET c == PublisherCtor(name, server, connOk, pdsOk)
          IN  pub = c.pub /\ lib = c.lib
    /\ call = NoCall
    /\ srv = NoServer
    /\ thr = "none"

NextPub == DoPublish

SpecPub == InitPub /\ [][NextPub]_vars

(***************************************************************************)
(* rm::Server: node addition, path search and life cycle.                  *)
(*                                                                         *)
(* A node of the address space has an id, a parent, the namespace index    *)
(* and browse name it is found by, and a node class.  Node ids are pairs   *)
(* <<namespace, number>>.  srv.pc is the place of the calling thread:      *)
(* "config" before start(), then "started", "stopped" and "joined".  thr   *)
(* is the thread running the event-processing loop.                        *)
(***************************************************************************)
\* total number of nodes added to the server
MaxNodes == 3

\* number of events triggered
MaxEvents == 1

UA_NS0ID_OBJECTSFOLDER == 85

UA_NS0ID_BASEEVENTTYPE == 2041

UA_NS0ID_SERVER == 2253

NullNodeId == <<0, 0>>

nodeObjectsFolder == <<0, UA_NS0ID_OBJECTSFOLDER>>

nodeBaseEventType == <<0, UA_NS0ID_BASEEVENTTYPE>>

nodeServer == <<0, UA_NS0ID_SERVER>>

BrowseNames == {"test_object", "test_event_type"}

ChildNames == {"test_val1"}

\* find(browse_name, ns): what the path search needs
find(browse_name, ns) == [browse_name |-> browse_name, ns |-> ns]

\* find(browse_name) with the namespace index 0
findNs0(browse_name) == find(browse_name, 0)

\* find(browse_name), the namespace index being defaulted
findDefault(browse_name) == find(browse_name, 1)

\* the nodes below origin that target names
Targets(nodes, origin, target) ==
    {n \in nodes : n.parent = origin /\ n.ns = target.ns
                   /\ n.browse_name = target.browse_name}

\* origin | target: the id of the node below origin that target names
Pipe(nodes, origin, target) ==
    IF Targets(nodes, origin, target) = {} THEN NullNodeId
    ELSE (CHOOSE n \in Targets(nodes, origin, target) : TRUE).id

\* adds one node below parent; fails when the browse name is taken there
AddNode(s, parent, ns, browse_name, class) ==
    IF Targets(s.nodes, parent, find(browse_name, ns)) # {}
    THEN [s EXCEPT !.ret = NullNodeId]
    ELSE [s EXCEPT !.nodes = @ \cup {[id |-> <<1, s.next>>, parent |-> parent,
                                      ns |-> ns, browse_name |-> browse_name,
                                      class |-> class]},
                   !.next = @ + 1,
                   !.ret = <<1, s.next>>]

\* adds the variables of an object or event type below the node just added
RECURSIVE AddChildren(_, _, _)
AddChildren(s, parent, names) ==
    IF names = {} \/ parent = NullNodeId THEN [s EXCEPT !.ret = parent]
    ELSE LET n == CHOOSE x \in names : TRUE
         IN  AddChildren(AddNode(s, parent, 1, n, "Variable"), parent,
                         names \ {n})

\* server.addVariableNode(variable);
addVariableNode ==
    \E ns \in Namespaces, b \in BrowseNames :
        /\ srv.pc = "config"
        /\ Cardinality(srv.nodes) < MaxNodes
        /\ srv' = [AddNode(srv, nodeObjectsFolder, ns, b, "Variable")
                     EXCEPT !.last = "addVariableNode", !.arg = b]
        /\ UNCHANGED <<vt, var, pub, lib, call, thr>>

\* server.addMethodNode(method);
addMethodNode ==
    \E b \in BrowseNames :
        /\ srv.pc = "config"
        /\ Cardinality(srv.nodes) < MaxNodes
        /\ srv' = [AddNode(srv, nodeObjectsFolder, 1, b, "Method")
                     EXCEPT !.last = "addMethodNode", !.arg = b]
        /\ UNCHANGED <<vt, var, pub, lib, call, thr>>

\* server.addObjectNode(object);
addObjectNode ==
    \E b \in BrowseNames, children \in SUBSET ChildNames :
        /\ srv.pc = "config"
        /\ Cardinality(srv.nodes) + Cardinality(children) < MaxNodes
        /\ LET s1 == AddNode(srv, nodeObjectsFolder, 1, b, "Object")
           IN  srv' = [AddChildren(s1, s1.ret, children)
                         EXCEPT !.last = "addObjectNode", !.arg = b]
        /\ UNCHANGED <<vt, var, pub, lib, call, thr>>

\* server.addEventTypeNode(event_type);
addEventTypeNode ==
    \E b \in BrowseNames, children \in SUBSET ChildNames :
        /\ srv.pc = "config"
        /\ Cardinality(srv.nodes) + Cardinality(children) < MaxNodes
        /\ LET s1 == AddNode(srv, nodeBaseEventType, 1, b, "EventType")
           IN  srv' = [AddChildren(s1, s1.ret, children)
                         EXCEPT !.last = "addEventTypeNode", !.arg = b]
        /\ UNCHANGED <<vt, var, pub, lib, call, thr>>

\* server.triggerEvent(nodeServer, event);
triggerEvent ==
    /\ srv.pc = "config"
    /\ srv.events < MaxEvents
    /\ srv' = [srv EXCEPT !.events = @ + 1, !.last = "triggerEvent",
                          !.arg = "", !.ret = nodeServer]
    /\ UNCHANGED <<vt, var, pub, lib, call, thr>>

\* server.start();
start ==
    /\ srv.pc = "config"
    /\ srv' = [srv EXCEPT !.pc = "started", !._running = TRUE]
    /\ thr' = "running"
    /\ UNCHANGED <<vt, var, pub, lib, call>>

\* server.stop(); that leaves the running flag set
stopKeepsRunning ==
    /\ srv.pc = "started"
    /\ srv' = [srv EXCEPT !.pc = "stopped"]
    /\ UNCHANGED <<vt, var, pub, lib, call, thr>>

\* server.stop();
stop ==
    /\ srv.pc = "started"
    /\ srv' = [srv EXCEPT !.pc = "stopped", !._running = FALSE]
    /\ UNCHANGED <<vt, var, pub, lib, call, thr>>

\* the event-processing loop finds the running flag cleared and returns
loopExit ==
    /\ thr = "running"
    /\ ~srv._running
    /\ thr' = "exited"
    /\ UNCHANGED <<vt, var, pub, lib, call, srv>>

\* server.join(); returns once the thread of the loop has ended
join ==
    /\ srv.pc = "stopped"
    /\ thr = "exited"
    /\ srv' = [srv EXCEPT !.pc = "joined"]
    /\ UNCHANGED <<vt, var, pub, lib, call, thr>>

InitSrv ==
    /\ vt = VariableTypeDefault
    /\ var = VariableDefault
    /\ pub = NoPublisher
    /\ lib = NoLibrary
    /\ call = NoCall
    /\ srv = NoServer
    /\ thr = "none"

NextSrv ==
    \/ addVariableNode
    \/ addMethodNode
    \/ addObjectNode
    \/ addEventTypeNode
    \/ triggerEvent
    \/ start
    \/ stop
    \/ loopExit
    \/ join

SpecSrv == InitSrv /\ [][NextSrv]_vars

\* the calling thread goes on to stop() and join(), and the thread of the
\* loop keeps running
SpecSrvFair ==
    SpecSrv /\ WF_vars(stop) /\ WF_vars(loopExit) /\ WF_vars(join)

(***************************************************************************)
(* Specification of the variable (type) wrappers.                          *)
(***************************************************************************)
Init ==
    /\ vt = VariableTypeDefault
    /\ var = VariableDefault
    /\ pub = NoPublisher
    /\ lib = NoLibrary
    /\ call = NoCall
    /\ srv = NoServer
    /\ thr = "none"

Next ==
    \/ NewVariableType
    \/ NewVariableTypeScalar
    \/ NewVariableTypeVector
    \/ NameVariableType
    \/ SetVariableTypeNs
    \/ NewVariable
    \/ NewVariableScalar
    \/ NewVariableVector
    \/ NewVariableFrom
    \/ NameVariable

Spec == Init /\ [][Next]_vars

(***************************************************************************)
(* Properties of the variable (type) wrappers.                             *)
(***************************************************************************)
\* C1: a Variable or VariableType constructed from a scalar has size 1 and
\* the data type tag of the decayed type of the scalar (double gives
\* UA_TYPES_DOUBLE, const char * gives UA_TYPES_STRING).
C1_ScalarSizeAndTag ==
    /\ var.ctor = "scalar" =>
          /\ VariableSize(var) = SizeOf(1)
          /\ VariableDataType(var) = DataType(VariableData(var).tp)
          /\ VariableData(var).tp = "double" =>
                VariableDataType(var) = "UA_TYPES_DOUBLE"
          /\ VariableData(var).tp = "const char *" =>
                VariableDataType(var) = "UA_TYPES_STRING"
    /\ vt.ctor = "scalar" =>
          /\ VariableTypeSize(vt) = SizeOf(1)
          /\ VariableTypeDataType(vt) = DataType(VariableTypeData(vt).tp)
          /\ VariableTypeData(vt).tp = "double" =>
                VariableTypeDataType(vt) = "UA_TYPES_DOUBLE"
          /\ VariableTypeData(vt).tp = "const char *" =>
                VariableTypeDataType(vt) = "UA_TYPES_STRING"

\* the variable holds the double and the variable type the string of the
\* test value_config
C1_Witness ==
    /\ var.ctor = "scalar" /\ VariableData(var).tp = "double"
    /\ VariableData(var).kind = "scalar"
    /\ vt.ctor = "scalar" /\ VariableTypeData(vt).tp = "const char *"
    /\ VariableTypeData(vt).kind = "scalar"

\* C2: a Variable or VariableType constructed from a std::vector<Tp> has
\* size arr.size() and the data type tag of Tp, and it is empty exactly when
\* the vector is.
C2_VectorSizeAndTag ==
    /\ var.ctor = "vector" =>
          /\ VariableSize(var) = VectorSize(VariableData(var).runs)
          /\ VariableDataType(var) = DataType(VariableData(var).tp)
          /\ VariableEmpty(var) <=> (VariableData(var).runs = <<>>)
    /\ vt.ctor = "vector" =>
          /\ VariableTypeSize(vt) = VectorSize(VariableTypeData(vt).runs)
          /\ VariableTypeDataType(vt) = DataType(VariableTypeData(vt).tp)
          /\ VariableTypeEmpty(vt) <=> (VariableTypeData(vt).runs = <<>>)

\* C5: empty() holds exactly when size() is 0; a default-constructed variable
\* (type) has size 0 and one constructed from a scalar is never empty.
C5_EmptyIffSizeZero ==
    /\ VariableEmpty(var) <=> (VariableSize(var) = SizeOf(0))
    /\ VariableTypeEmpty(vt) <=> (VariableTypeSize(vt) = SizeOf(0))
    /\ var.ctor = "default" => VariableSize(var) = SizeOf(0)
    /\ vt.ctor = "default" => VariableTypeSize(vt) = SizeOf(0)
    /\ var.ctor = "scalar" => ~VariableEmpty(var)
    /\ vt.ctor = "scalar" => ~VariableTypeEmpty(vt)

\* a variable made by Variable::from of a scalar variable type, next to a
\* variable type holding a vector whose size wrapped to 0
C5_Witness ==
    /\ var.ctor = "from" /\ VariableData(var).kind = "scalar"
    /\ ~VariableEmpty(var)
    /\ vt.ctor = "vector" /\ VariableTypeData(vt).runs # <<>>
    /\ VariableTypeEmpty(vt)

\* C6: Variable::from(vtype) yields a variable with the data type, size and
\* value of vtype, whose type() is vtype, whose access level is read | write
\* and whose own names are empty; vtype is left as it was.
C6_FromCopiesType ==
    [][NewVariableFrom =>
          /\ VariableDataType(var') = VariableTypeDataType(vt)
          /\ VariableSize(var') = VariableTypeSize(vt)
          /\ VariableData(var') = VariableTypeData(vt)
          /\ VariableTypeOf(var') = vt
          /\ VariableTypeOf(var').ns = vt.ns
          /\ VariableTypeOf(var').browse_name = vt.browse_name
          /\ VariableTypeOf(var').display_name = vt.display_name
          /\ VariableTypeOf(var').description = vt.description
          /\ var'.access_level = VARIABLE_READ + VARIABLE_WRITE
          /\ var'.browse_name = ""
          /\ var'.display_name = ""
          /\ var'.description = ""
          /\ vt' = vt]_vars

\* a variable made from a named vector variable type of namespace 2
C6_Witness ==
    /\ var.ctor = "from"
    /\ VariableTypeOf(var) = vt
    /\ vt.ctor = "vector" /\ vt.browse_name = "val" /\ vt.ns = 2
    /\ ~VariableTypeEmpty(vt)
    /\ var.browse_name = ""

(***************************************************************************)
(* Properties of the publisher.                                            *)
(***************************************************************************)
\* the library calls of a successful publish(datas, duration)
PublishCalls(datas) ==
    [i \in 1..Len(datas) |-> "UA_Server_addDataSetField"]
        \o <<"UA_Server_addWriterGroup", "UA_Server_setWriterGroupOperational",
             "UA_Server_addDataSetWriter">>

C8_PublishPreconditions ==
    [][(/\ call'.name = "publish"
        /\ call'.n = call.n + 1
        /\ pub._server = "nullptr" \/ UA_NodeId_isNull(pub._connection_id))
       =>
       /\ call'.ret = IF pub._server = "nullptr" THEN "RMVL_StsNullPtr" ELSE "false"
       /\ call'.log = <<>>
       /\ lib' = lib
       /\ pub'._pds_id = pub._pds_id
       /\ pub'._wg_id = pub._wg_id
       /\ pub'._dsw_id = pub._dsw_id]_vars

\* publish of one data set or more returned false on a publisher whose
\* constructor could not add the connection
C8_Witness ==
    /\ call.name = "publish"
    /\ call.ret = "false"
    /\ call.log = <<>>
    /\ call.datas # <<>>
    /\ pub._server # "nullptr"
    /\ UA_NodeId_isNull(pub._connection_id)
    /\ lib = NoLibrary

C7_JoinReturns == (srv.pc = "started") ~> (srv.pc = "joined" /\ thr = "exited")

\* join() returned on a server holding nodes and a triggered event
C7_Witness ==
    /\ srv.pc = "joined"
    /\ thr = "exited"
    /\ srv.nodes # {}
    /\ srv.events > 0

====
